---------------------------- MODULE Spec2Model ----------------------------
(***************************************************************************)
(* Model of the report engine of src/queries/mongo_queries.py and of the   *)
(* menu dispatch of src/app.py.  The film collection is a sequence of      *)
(* documents; every report is an operator that evaluates the report's      *)
(* aggregation pipeline stage by stage with MongoDB's semantics (BSON      *)
(* comparison order, $convert, $split, $trim, $unwind, $group, $sort).     *)
(* Where MongoDB leaves an order open (ties of a $sort, the output order   *)
(* of a $group) the operator yields the SET of the possible results and    *)
(* the action picks one of them.                                            *)
(***************************************************************************)
EXTENDS Integers, Sequences, FiniteSets, TLC

VARIABLES films, views, choice, result, raised, shown

vars == <<films, views, choice, result, raised, shown>>

(***************************************************************************)
(* Bounds of the model.                                                    *)
(***************************************************************************)
MaxFilms == 3
MaxDecadeFilms == 4

(***************************************************************************)
(* BSON values.  A field of a document is missing, null, a number or a     *)
(* string; a string is the sequence of its characters.                     *)
(***************************************************************************)
Missing == [t |-> "missing"]
Null == [t |-> "null"]
\* A number is the rational n/d (d > 0): the integers of the collection have
\* d = 1, the averages of $avg have d = the number of values averaged.
Num(n) == [t |-> "number", n |-> n, d |-> 1]
Ratio(n, d) == [t |-> "number", n |-> n, d |-> d]
Str(s) == [t |-> "string", s |-> s]
NaN == [t |-> "nan"]

IsNum(v) == v.t = "number"
IsStr(v) == v.t = "string"
IsNullish(v) == v.t \in {"missing", "null"}

\* Python's truth value of a BSON value read through pymongo.
Truthy(v) ==
    IF IsNullish(v) THEN FALSE
    ELSE IF IsNum(v) THEN v.n # 0
    ELSE IF IsStr(v) THEN Len(v.s) > 0
    ELSE TRUE

\* What a pipeline expression "$field" evaluates to in a $group _id or an
\* accumulator: a missing field reads as null.
NullIfMissing(v) == IF v.t = "missing" THEN Null ELSE v

\* BSON comparison order used by $sort: null/missing < numbers < strings.
TypeRank(v) == IF IsNullish(v) THEN 0 ELSE IF IsNum(v) THEN 1 ELSE 2

\* The characters the model's strings are made of, in code-point order.
Alphabet == <<" ", ",", "/", "0", "1", "2", "3", "4", "5", "6", "7", "8", "9",
              "A", "C", "D", "M", "N">>
DigitChars == <<"0", "1", "2", "3", "4", "5", "6", "7", "8", "9">>
Digits == {DigitChars[i] : i \in 1..Len(DigitChars)}
Whitespace == {" "}

RECURSIVE StrLess(_, _)
StrLess(a, b) ==
    IF Len(b) = 0 THEN FALSE
    ELSE IF Len(a) = 0 THEN TRUE
    ELSE IF Head(a) = Head(b) THEN StrLess(Tail(a), Tail(b))
    ELSE \E i \in 1..Len(Alphabet) : \E j \in 1..Len(Alphabet) :
            Alphabet[i] = Head(a) /\ Alphabet[j] = Head(b) /\ i < j

BsonLess(a, b) ==
    IF TypeRank(a) # TypeRank(b) THEN TypeRank(a) < TypeRank(b)
    ELSE IF IsNum(a) THEN a.n * b.d < b.n * a.d
    ELSE IF IsStr(a) THEN StrLess(a.s, b.s)
    ELSE FALSE

(***************************************************************************)
(* String expressions.                                                     *)
(***************************************************************************)
\* {"$split": [s, sep]} and str.split: the pieces of s between separators.
RECURSIVE SplitStr(_, _)
SplitStr(s, sep) ==
    IF \E i \in 1..Len(s) : s[i] = sep
    THEN LET i == CHOOSE k \in 1..Len(s) :
                    s[k] = sep /\ \A j \in 1..(k - 1) : s[j] # sep
         IN  <<SubSeq(s, 1, i - 1)>> \o SplitStr(SubSeq(s, i + 1, Len(s)), sep)
    ELSE <<s>>

RECURSIVE TrimLeft(_)
TrimLeft(s) ==
    IF Len(s) > 0 /\ Head(s) \in Whitespace THEN TrimLeft(Tail(s)) ELSE s

RECURSIVE TrimRight(_)
TrimRight(s) ==
    IF Len(s) > 0 /\ s[Len(s)] \in Whitespace
    THEN TrimRight(SubSeq(s, 1, Len(s) - 1)) ELSE s

\* {"$trim": {"input": s}} and str.strip(): whitespace removed at both ends.
Trim(s) == TrimRight(TrimLeft(s))

DigitValue(c) == (CHOOSE i \in 1..Len(DigitChars) : DigitChars[i] = c) - 1

RECURSIVE ParseDigits(_, _)
ParseDigits(s, acc) ==
    IF Len(s) = 0 THEN acc
    ELSE ParseDigits(Tail(s), 10 * acc + DigitValue(Head(s)))

\* {"$convert": {"input": v, "to": "double", "onError": None, "onNull": None}}:
\* a number converts to itself, a string converts when it is a decimal
\* numeral, every other input (missing, null, any other string) gives null.
ConvertToDouble(v) ==
    IF IsNum(v) THEN v
    ELSE IF IsStr(v) /\ Len(v.s) > 0 /\ \A i \in 1..Len(v.s) : v.s[i] \in Digits
         THEN Num(ParseDigits(v.s, 0))
    ELSE Null

(***************************************************************************)
(* Rows and the stages shared by the pipelines.                            *)
(***************************************************************************)
Range(s) == {s[i] : i \in 1..Len(s)}

RECURSIVE Flatten(_)
Flatten(ss) == IF Len(ss) = 0 THEN <<>> ELSE Head(ss) \o Flatten(Tail(ss))

RECURSIVE SumOver(_, _)
SumOver(S, f) ==
    IF S = {} THEN 0
    ELSE LET x == CHOOSE y \in S : TRUE IN f[x] + SumOver(S \ {x}, f)

\* {"$addFields": {name: v}} and {"$set": {name: v}} on one row.
AddField(row, name, v) == (name :> v) @@ row

\* A sort specification {field: 1} or {field: -1}: whether row a comes
\* strictly before row b.
RowLess(a, b, sort) ==
    IF sort.dir = 1
    THEN BsonLess(NullIfMissing(a[sort.field]), NullIfMissing(b[sort.field]))
    ELSE BsonLess(NullIfMissing(b[sort.field]), NullIfMissing(a[sort.field]))

\* The orders a $sort may leave the elements of S in: an element is next
\* when none of the others is before it; elements that compare equal come
\* in any order (a $sort is not stable).  less is the set of the pairs
\* <<x, y>> with x before y.
RECURSIVE Orderings(_, _)
Orderings(S, less) ==
    IF S = {} THEN {<<>>}
    ELSE UNION {{<<m>> \o rest : rest \in Orderings(S \ {m}, less)} :
                m \in {x \in S : \A y \in S : <<y, x>> \notin less}}

\* {"$sort": sort} applied to a sequence of rows: every order it may give.
SortRows(rows, sort) ==
    LET I == 1..Len(rows)
        less == {ij \in I \X I : RowLess(rows[ij[1]], rows[ij[2]], sort)}
    IN  {[k \in I |-> rows[p[k]]] : p \in Orderings(I, less)}

\* {"$sort": sort} applied to the output of a $group, which comes in no
\* defined order: every order of the set of rows that the sort allows.
SortGroups(S, sort) ==
    Orderings(S, {xy \in S \X S : RowLess(xy[1], xy[2], sort)})

\* The first n rows: {"$limit": n} and {"$slice": [rows, n]}.
Take(rows, n) == SubSeq(rows, 1, IF Len(rows) < n THEN Len(rows) ELSE n)

\* {"$group": {"_id": "$field", "count": {"$sum": 1}}}: one row per
\* distinct value of the field, a missing field counted under null.
GroupCount(rows, field) ==
    {[_id |-> k,
      count |-> Num(Cardinality({i \in 1..Len(rows) :
                                    NullIfMissing(rows[i][field]) = k}))] :
        k \in {NullIfMissing(rows[i][field]) : i \in 1..Len(rows)}}

\* {"$avg": "$field"} over the rows: the mean of the numeric values, values
\* of any other type are ignored; null when no value is numeric.  The values
\* averaged are integers (d = 1).
Avg(rows, field) ==
    LET I == {i \in 1..Len(rows) : IsNum(rows[i][field])}
    IN  IF I = {} THEN Null
        ELSE Ratio(SumOver(I, [i \in I |-> rows[i][field].n]), Cardinality(I))

(***************************************************************************)
(* The film collection.                                                    *)
(***************************************************************************)
Year1999 == 1999
Year2007 == 2007
DecadeLength == 10
TopN == 3
MinDirectorFilms == 5
ViewMinMetascore == 80
ViewMinRevenue == 50

CrimeDrama == <<"C", ",", "D">>
CrimeSpaceDrama == <<"C", ",", " ", "D">>
Drama == <<"D">>
CrimeDramaMystery == <<"C", ",", " ", "D", ",", " ", "M">>

\* A document of `films`; _id is the database identity, the position at
\* which the document was inserted.
Film(id, f) ==
    [_id |-> id, title |-> Str(<<"A", DigitChars[id + 1]>>),
     year |-> f.year, genre |-> f.genre, Director |-> f.Director,
     Votes |-> f.Votes, Revenue |-> f.Revenue, Runtime |-> f.Runtime,
     Metascore |-> f.Metascore]

DefaultFields ==
    [year |-> Num(Year2007), genre |-> Str(Drama), Director |-> Str(<<"N">>),
     Votes |-> Num(7), Revenue |-> Num(60), Runtime |-> Num(90),
     Metascore |-> Num(70)]

\* The collections of at most max documents whose fields are drawn from F.
Collections(F, max) ==
    UNION {{[i \in 1..n |-> Film(i, fs[i])] : fs \in [1..n -> F]} : n \in 0..max}

(***************************************************************************)
(* Reports 1 to 4.                                                         *)
(***************************************************************************)
SortCountAsc == [field |-> "count", dir |-> 1]
SortCountDesc == [field |-> "count", dir |-> -1]
SortIdDesc == [field |-> "_id", dir |-> -1]
SortIdAsc == [field |-> "_id", dir |-> 1]

\* 1. The possible return values, one per order the $sort may produce.
year_with_most_releases(films_collection) ==
    LET results == {Take(sorted, 1) :
                      sorted \in SortGroups(GroupCount(films_collection, "year"),
                                            SortCountDesc)}
    IN  {IF Len(r) > 0 THEN <<r[1]._id, r[1].count.n>> ELSE <<Null, 0>> :
            r \in results}

count_films_from_1999(films_collection) ==
    Cardinality({i \in 1..Len(films_collection) :
                    /\ IsNum(films_collection[i].year)
                    /\ ~BsonLess(films_collection[i].year, Num(Year1999))})

\* 2. A query {"year": {"$gt": 1999}} matches numbers only.
count_films_after_1999(films_collection) ==
    Cardinality({i \in 1..Len(films_collection) :
                    /\ IsNum(films_collection[i].year)
                    /\ BsonLess(Num(Year1999), films_collection[i].year)})

\* 3.
average_votes_for_2007(films_collection) ==
    LET matched == SelectSeq(films_collection, LAMBDA d : d.year = Num(Year2007))
        results == IF Len(matched) = 0 THEN <<>>
                   ELSE <<[_id |-> Null, avgVotes |-> Avg(matched, "Votes")]>>
    IN  IF Len(results) > 0 THEN results[1].avgVotes ELSE Null

\* 4. The keys of the groups are distinct, so the $sort leaves one order.
films_per_year(films_collection) ==
    CHOOSE sorted \in SortGroups(GroupCount(films_collection, "year"), SortIdAsc) :
        TRUE

(***************************************************************************)
(* Reports 5 to 8.                                                         *)
(***************************************************************************)
\* {"$unwind": "$genreArray"} after {"$addFields": {"genreArray": {"$split":
\* ["$genre", ","]}}}: one row per piece of the genre, in order, with the
\* piece as its genreArray.  A missing genre splits to null, and a document
\* whose genreArray is null gives no row.
UnwindGenres(films_collection) ==
    LET RowsOf(doc) ==
            IF ~IsStr(doc.genre) THEN <<>>
            ELSE LET a == SplitStr(doc.genre.s, ",")
                 IN  [k \in 1..Len(a) |-> AddField(doc, "genreArray", Str(a[k]))]
    IN  Flatten([i \in 1..Len(films_collection) |-> RowsOf(films_collection[i])])

\* The rows entering the $group of report 5, each with its group key:
\* {"$group": {"_id": "$genreArray"}}.
GenreKeys5(films_collection) ==
    LET rows == UnwindGenres(films_collection)
    IN  [i \in 1..Len(rows) |-> [row |-> rows[i], key |-> rows[i].genreArray]]

\* 5. The groups come in any order; the list comprehension strips each
\* group key and drops the empty ones.
distinct_genres(films_collection) ==
    LET keyed == GenreKeys5(films_collection)
        groups == {[_id |-> keyed[i].key] : i \in 1..Len(keyed)}
    IN  {[i \in 1..Len(kept) |-> Trim(kept[i]._id.s)] :
            kept \in {SelectSeq(results, LAMBDA doc : Truthy(doc._id)) :
                        results \in Orderings(groups, {})}}

SortParsedRevenueAsc == [field |-> "parsedRevenue", dir |-> 1]
SortParsedRevenueDesc == [field |-> "parsedRevenue", dir |-> -1]

\* 6. The possible return values; None is Null.
top_revenue_film(films_collection) ==
    LET added == [i \in 1..Len(films_collection) |->
                    AddField(films_collection[i], "parsedRevenue",
                             ConvertToDouble(films_collection[i].Revenue))]
        matched == SelectSeq(added, LAMBDA d : d.parsedRevenue # Null)
        Project(d) == [title |-> d.title, originalRevenue |-> d.Revenue,
                       numericRevenue |-> d.parsedRevenue]
        results == {[i \in 1..Len(top) |-> Project(top[i])] :
                      top \in {Take(sorted, 1) :
                                 sorted \in SortRows(matched, SortParsedRevenueDesc)}}
    IN  {IF Len(r) > 0 THEN r[1] ELSE Null : r \in results}

\* 7.
directors_with_more_than_5_movies(films_collection) ==
    SortGroups({g \in GroupCount(films_collection, "Director") :
                   g.count.n > MinDirectorFilms},
               SortCountDesc)

\* The rows entering the $group of report 8, each with its group key:
\* {"$group": {"_id": {"$trim": {"input": "$genreArray"}}, ...}}.
GenreKeys8(films_collection) ==
    LET rows == UnwindGenres(films_collection)
    IN  [i \in 1..Len(rows) |->
            [row |-> rows[i], key |-> Str(Trim(rows[i].genreArray.s))]]

SortAvgRevenueDesc == [field |-> "avgRevenue", dir |-> -1]
EmptyDict == [empty |-> TRUE]

\* 8.
top_genre_by_average_revenue(films_collection) ==
    LET keyed == GenreKeys8(films_collection)
        RowsOf(k) == LET of == SelectSeq(keyed, LAMBDA r : r.key = k)
                     IN  [i \in 1..Len(of) |-> of[i].row]
        groups == {[_id |-> k, avgRevenue |-> Avg(RowsOf(k), "Revenue")] :
                      k \in {keyed[i].key : i \in 1..Len(keyed)}}
        results == {Take(sorted, 1) : sorted \in SortGroups(groups, SortAvgRevenueDesc)}
    IN  {IF Len(r) > 0 THEN r[1] ELSE EmptyDict : r \in results}

(***************************************************************************)
(* Reports 9 and 10.                                                       *)
(***************************************************************************)
\* {"$subtract": ["$year", {"$mod": ["$year", 10]}]}; null when year is
\* missing.  The years of the model are not negative.
decade(doc) ==
    IF IsNum(doc.year) THEN Num(doc.year.n - (doc.year.n % DecadeLength)) ELSE Null

SortNumericMetascoreAsc == [field |-> "numericMetascore", dir |-> 1]
SortNumericMetascoreDesc == [field |-> "numericMetascore", dir |-> -1]
SortDecadeAsc == [field |-> "decade", dir |-> 1]

\* 9. One result per order the $sort by numericMetascore may produce; the
\* final $sort is on the decades, which are distinct.
top_3_movies_each_decade(films_collection) ==
    LET added == [i \in 1..Len(films_collection) |->
                    AddField(films_collection[i], "numericMetascore",
                             ConvertToDouble(films_collection[i].Metascore))]
        matched == SelectSeq(added, LAMBDA d : d.numericMetascore # Null)
        decades == [i \in 1..Len(matched) |->
                      AddField(matched[i], "decade", decade(matched[i]))]
        Pushed(d) == [title |-> d.title, metascore |-> d.numericMetascore,
                      year |-> d.year]
        filmsByDecade(sorted, k) ==
            LET of == SelectSeq(sorted, LAMBDA d : d.decade = k)
            IN  [i \in 1..Len(of) |-> Pushed(of[i])]
        Grouped(sorted) ==
            {[decade |-> k, top3Films |-> Take(filmsByDecade(sorted, k), TopN)] :
                k \in {sorted[i].decade : i \in 1..Len(sorted)}}
    IN  UNION {SortGroups(Grouped(sorted), SortDecadeAsc) :
                  sorted \in SortRows(decades, SortNumericMetascoreDesc)}

\* The rows entering the $group of report 10, each with its group key: the
\* $set stage has trimmed genreArray, and the key is "$genreArray".
GenreKeys10(films_collection) ==
    LET rows == UnwindGenres(films_collection)
        trimmed == [i \in 1..Len(rows) |->
                      AddField(rows[i], "genreArray", Str(Trim(rows[i].genreArray.s)))]
    IN  [i \in 1..Len(rows) |-> [row |-> trimmed[i], key |-> trimmed[i].genreArray]]

SortRuntimeAsc == [field |-> "Runtime", dir |-> 1]
SortRuntimeDesc == [field |-> "Runtime", dir |-> -1]
SortMaxRuntimeDesc == [field |-> "maxRuntime", dir |-> -1]

\* {"$sort": sort} followed by {"$group": {..., f: {"$first": ...}}}: the
\* rows that some order of the sort puts first among the rows of key k, that
\* is the rows of key k that no row of key k precedes.  The rows of two keys
\* are different rows, so every combination of such rows, one per key, is
\* the outcome of one order.
FirstRows(keyed, sort, k) ==
    {keyed[i].row : i \in {i \in 1..Len(keyed) :
        /\ keyed[i].key = k
        /\ \A j \in 1..Len(keyed) :
              keyed[j].key = k => ~RowLess(keyed[j].row, keyed[i].row, sort)}}

\* 10. One result per order the two $sort stages may produce.  $$ROOT is
\* the whole row: the document with its trimmed genreArray.
longest_film_by_genre(films_collection) ==
    LET keyed == GenreKeys10(films_collection)
        keys == {keyed[i].key : i \in 1..Len(keyed)}
        firsts == {f \in [keys -> {keyed[i].row : i \in 1..Len(keyed)}] :
                      \A k \in keys : f[k] \in FirstRows(keyed, SortRuntimeDesc, k)}
        Grouped(f) ==
            {[_id |-> k,
              maxRuntime |-> NullIfMissing(f[k].Runtime),
              longestFilm |-> f[k]] : k \in keys}
    IN  UNION {SortGroups(Grouped(f), SortMaxRuntimeDesc) : f \in firsts}

(***************************************************************************)
(* Reports 11 to 13.                                                       *)
(***************************************************************************)
\* The command document of report 11; the $match of its pipeline is kept
\* as its two thresholds.
ViewCommand ==
    [create |-> "high_metascore_and_revenue_view", viewOn |-> "films",
     MetascoreGt |-> ViewMinMetascore, RevenueGt |-> ViewMinRevenue]

\* The documents a view shows: a query operator $gt matches numbers only.
QueryView(v, films_collection) ==
    SelectSeq(films_collection,
              LAMBDA d : /\ IsNum(d.Metascore) /\ BsonLess(Num(v.MetascoreGt), d.Metascore)
                         /\ IsNum(d.Revenue) /\ BsonLess(Num(v.RevenueGt), d.Revenue))

\* 11. db.command(...) on the set of the database's views.  The outcomes
\* are <<views after, raised>>.  Creating a namespace that exists is
\* refused with NamespaceExists, which pymongo raises as OperationFailure;
\* a server that accepts a repeated create with identical options answers
\* ok and changes nothing.  The function catches nothing.
create_view_high_metascore_and_revenue(vs) ==
    IF \E v \in vs : v.create = ViewCommand.create
    THEN {<<vs, TRUE>>, <<vs, FALSE>>}
    ELSE {<<vs \cup {ViewCommand}, FALSE>>}

\* Series.corr (Pearson) of the two columns, n times the sums as integers:
\* r = cov / sqrt(vx * vy).  With one row, or a constant column, the
\* quotient is 0/0 and the value is NaN.
Pearson(data) ==
    LET I == 1..Len(data)
        n == Len(data)
        sx == SumOver(I, [i \in I |-> data[i].runtime.n])
        sy == SumOver(I, [i \in I |-> data[i].revenue.n])
        sxy == SumOver(I, [i \in I |-> data[i].runtime.n * data[i].revenue.n])
        sxx == SumOver(I, [i \in I |-> data[i].runtime.n * data[i].runtime.n])
        syy == SumOver(I, [i \in I |-> data[i].revenue.n * data[i].revenue.n])
        cov == n * sxy - sx * sy
        vx == n * sxx - sx * sx
        vy == n * syy - sy * sy
    IN  IF vx * vy = 0 THEN NaN
        ELSE [t |-> "float", cov |-> cov, vx |-> vx, vy |-> vy]

runtime_revenue_correlation_unguarded(films_collection) ==
    LET found == SelectSeq(films_collection,
                           LAMBDA d : IsNum(d.Runtime) /\ IsNum(d.Revenue))
    IN  Pearson([i \in 1..Len(found) |->
                    [runtime |-> found[i].Runtime, revenue |-> found[i].Revenue]])

\* 12. find() with {"$exists": True, "$type": "number"} on both fields.
runtime_revenue_correlation(films_collection) ==
    LET found == SelectSeq(films_collection,
                           LAMBDA d : IsNum(d.Runtime) /\ IsNum(d.Revenue))
        data == [i \in 1..Len(found) |->
                    [runtime |-> found[i].Runtime, revenue |-> found[i].Revenue]]
    IN  IF Len(data) = 0 THEN Null ELSE Pearson(data)

\* 13.
average_runtime_by_decade(films_collection) ==
    LET added == [i \in 1..Len(films_collection) |->
                    AddField(films_collection[i], "numericRuntime",
                             ConvertToDouble(films_collection[i].Runtime))]
        matched == SelectSeq(added, LAMBDA d : d.numericRuntime # Null)
        groups == {[decade |-> k,
                    avgRuntime |-> Avg(SelectSeq(matched, LAMBDA d : decade(d) = k),
                                       "numericRuntime")] :
                      k \in {decade(matched[i]) : i \in 1..Len(matched)}}
    IN  CHOOSE sorted \in SortGroups(groups, SortDecadeAsc) : TRUE

(***************************************************************************)
(* The menu of src/app.py: one action per choice, executed on the button.  *)
(***************************************************************************)
ReadsAndRemoves ==
    /\ films' = SubSeq(films, 1, Len(films) - 1)
    /\ UNCHANGED views

\* find, aggregate and distinct only read: no report but choice 11 writes.
Reads == UNCHANGED <<films, views>>

Choice1 ==
    /\ \E r \in year_with_most_releases(films) :
          /\ result' = r
          /\ shown' = IF Truthy(r[1]) THEN "annee" ELSE "aucun resultat"
    /\ choice' = 1
    /\ raised' = FALSE
    /\ Reads

Choice2 ==
    /\ result' = count_films_after_1999(films)
    /\ shown' = "films apres 1999"
    /\ choice' = 2
    /\ raised' = FALSE
    /\ Reads

Choice3 ==
    /\ result' = average_votes_for_2007(films)
    /\ shown' = IF result' # Null THEN "moyenne" ELSE "aucun film 2007"
    /\ choice' = 3
    /\ raised' = FALSE
    /\ Reads

\* A DataFrame built from an empty list has no column "Year": df["Year"]
\* raises KeyError after the report has returned, and nothing guards it.
Choice4 ==
    /\ result' = films_per_year(films)
    /\ raised' = (Len(result') = 0)
    /\ shown' = IF raised' THEN "exception" ELSE "histogramme"
    /\ choice' = 4
    /\ Reads

Choice5 ==
    /\ \E genres \in distinct_genres(films) : result' = genres
    /\ shown' = "genres distincts"
    /\ choice' = 5
    /\ raised' = FALSE
    /\ Reads

Choice6 ==
    /\ \E film \in top_revenue_film(films) :
          /\ result' = film
          /\ shown' = IF film # Null THEN "film" ELSE "aucun film"
    /\ choice' = 6
    /\ raised' = FALSE
    /\ Reads

Choice7 ==
    /\ \E directors \in directors_with_more_than_5_movies(films) :
          /\ result' = directors
          /\ shown' = IF Len(directors) > 0 THEN "realisateurs" ELSE "aucun realisateur"
    /\ choice' = 7
    /\ raised' = FALSE
    /\ Reads

\* An average of None (a genre without a numeric revenue) cannot be
\* formatted with :.2f: TypeError.
Choice8 ==
    /\ \E best_genre \in top_genre_by_average_revenue(films) :
          /\ result' = best_genre
          /\ raised' = (best_genre # EmptyDict /\ best_genre.avgRevenue = Null)
          /\ shown' = IF best_genre = EmptyDict THEN "aucun resultat"
                      ELSE IF raised' THEN "exception" ELSE "genre"
    /\ choice' = 8
    /\ Reads

Choice9 ==
    /\ \E results \in top_3_movies_each_decade(films) : result' = results
    /\ shown' = "decennies"
    /\ choice' = 9
    /\ raised' = FALSE
    /\ Reads

Choice10 ==
    /\ \E results \in longest_film_by_genre(films) : result' = results
    /\ shown' = "film le plus long par genre"
    /\ choice' = 10
    /\ raised' = FALSE
    /\ Reads

\* The call is not guarded: an exception leaves main before st.write.
Choice11 ==
    /\ \E out \in create_view_high_metascore_and_revenue(views) :
          /\ views' = out[1]
          /\ raised' = out[2]
          /\ shown' = IF out[2] THEN "exception" ELSE "vue creee"
    /\ result' = Null
    /\ choice' = 11
    /\ UNCHANGED films

Choice12 ==
    /\ result' = runtime_revenue_correlation(films)
    /\ shown' = IF result' # Null THEN "correlation" ELSE "pas assez de donnees"
    /\ choice' = 12
    /\ raised' = FALSE
    /\ Reads

Choice13 ==
    /\ result' = average_runtime_by_decade(films)
    /\ shown' = IF Len(result') = 0 THEN "aucune donnee" ELSE "duree moyenne"
    /\ choice' = 13
    /\ raised' = FALSE
    /\ Reads

Started ==
    /\ views = {}
    /\ choice = 0
    /\ result = Null
    /\ raised = FALSE
    /\ shown = "menu"

\* The collections of the specifications: each varies the fields that the
\* reports of its Next read and keeps the others at their defaults.
YearFields ==
    {[DefaultFields EXCEPT !.year = y] :
        y \in {Missing, Num(Year1999), Num(2000), Num(Year2007)}}

GenreFields ==
    {[DefaultFields EXCEPT !.genre = g] :
        g \in {Missing, Str(Drama), Str(CrimeDrama), Str(CrimeSpaceDrama),
               Str(CrimeDramaMystery)}}

\* A runtime is a number or absent; revenues and metascores may also be
\* strings, numeric or not.
RuntimeFields ==
    {[DefaultFields EXCEPT !.genre = g, !.Runtime = r] :
        g \in {Str(Drama), Str(CrimeSpaceDrama)},
        r \in {Missing, Num(90), Num(120)}}

RevenueFields ==
    {[DefaultFields EXCEPT !.Revenue = r] :
        r \in {Missing, Null, Num(9), Num(60), Str(<<"8", "0">>),
               Str(<<"N", "/", "A">>), Str(<<>>)}}

CorrelationFields ==
    {[DefaultFields EXCEPT !.Runtime = r, !.Revenue = v] :
        r \in {Missing, Num(90), Num(120)},
        v \in {Str(<<"N", "/", "A">>), Num(9), Num(60)}}

DecadeFields ==
    {[DefaultFields EXCEPT !.year = y, !.Metascore = m] :
        y \in {Num(Year1999), Num(Year2007)}, m \in {Num(7), Str(<<"9">>)}}
    \cup {[DefaultFields EXCEPT !.year = Num(Year1999), !.Metascore = Missing],
          [DefaultFields EXCEPT !.year = Num(Year2007),
                                !.Metascore = Str(<<"N", "/", "A">>)]}

\* Complete documents beside documents that lack the fields the reports
\* read, or hold values that do not convert.
SparseFields ==
    {DefaultFields,
     [year |-> Num(Year1999), genre |-> Missing, Director |-> Missing,
      Votes |-> Missing, Revenue |-> Missing, Runtime |-> Missing,
      Metascore |-> Missing],
     [year |-> Missing, genre |-> Str(<<>>), Director |-> Str(<<"N">>),
      Votes |-> Str(<<"N", "/", "A">>), Revenue |-> Str(<<"N", "/", "A">>),
      Runtime |-> Missing, Metascore |-> Str(<<"N", "/", "A">>)]}

Init == films \in Collections(YearFields, MaxFilms) /\ Started
InitSparse == films \in Collections(SparseFields, MaxFilms) /\ Started
InitGenres == films \in Collections(GenreFields, MaxFilms) /\ Started
InitRuntime == films \in Collections(RuntimeFields, MaxFilms) /\ Started
InitRevenue == films \in Collections(RevenueFields, MaxFilms) /\ Started
InitCorrelation == films \in Collections(CorrelationFields, MaxFilms) /\ Started
InitDecades == films \in Collections(DecadeFields, MaxDecadeFilms) /\ Started

Next ==
    \/ Choice1 \/ Choice2 \/ Choice3 \/ Choice4 \/ Choice5 \/ Choice6 \/ Choice7
    \/ Choice8 \/ Choice9 \/ Choice10 \/ Choice11 \/ Choice12 \/ Choice13

\* The reports that read the varied fields of each family of collections.
NextGenres == Choice5 \/ Choice8 \/ Choice10
NextRuntime == Choice10 \/ Choice13
NextRevenue == Choice6 \/ Choice8
NextCorrelation == Choice12
NextDecades == Choice9 \/ Choice13

Spec == Init /\ [][Next]_vars
SpecGenres == InitGenres /\ [][NextGenres]_vars
SpecRuntime == InitRuntime /\ [][NextRuntime]_vars
SpecRevenue == InitRevenue /\ [][NextRevenue]_vars
SpecCorrelation == InitCorrelation /\ [][NextCorrelation]_vars
SpecDecades == InitDecades /\ [][NextDecades]_vars
SpecSparse == InitSparse /\ [][Next]_vars

(***************************************************************************)
(* Properties of the reports.                                              *)
(***************************************************************************)
\* The years of the films, null standing for the films without a year.
Years == {NullIfMissing(films[i].year) : i \in 1..Len(films)}
FilmsOfYear(y) == {i \in 1..Len(films) : NullIfMissing(films[i].year) = y}

\* C7: on a non-empty collection the rows of report 4 are sorted ascending
\* by year (null, the key of the films without a year, first), there is
\* exactly one row per distinct year, and the counts sum to the number of
\* films, those without a year included.
C7_FilmsPerYearSortedAndComplete ==
    (choice = 4 /\ Len(films) > 0) =>
        /\ \A i \in 1..(Len(result) - 1) : BsonLess(result[i]._id, result[i + 1]._id)
        /\ {result[i]._id : i \in 1..Len(result)} = Years
        /\ Len(result) = Cardinality(Years)
        /\ SumOver(1..Len(result), [i \in 1..Len(result) |-> result[i].count.n])
              = Len(films)

C7_Witness ==
    /\ choice = 4
    /\ Len(films) = 3
    /\ Len(result) = 2
    /\ result[1] = [_id |-> Null, count |-> Num(1)]
    /\ result[2].count = Num(2)

\* C8: the count of report 2 is the sum of the counts of the rows of
\* report 4, on the same collection, whose year is greater than 1999.
C8_CountAfter1999MatchesPerYear ==
    choice = 2 =>
        LET rows == films_per_year(films)
            after == {i \in 1..Len(rows) :
                        IsNum(rows[i]._id) /\ rows[i]._id.n > Year1999}
        IN  result = SumOver(after, [i \in after |-> rows[i].count.n])

C8_Witness ==
    /\ choice = 2
    /\ result = 1
    /\ \E i \in 1..Len(films) : films[i].year = Num(Year1999)
    /\ \E i \in 1..Len(films) : films[i].year = Missing

\* C9: on a non-empty collection report 1 returns a pair (year, count) in
\* which count is the greatest number of films of one year and year is a
\* year with that many films; the years 2000, 2000, 1999 give (2000, 2).
C9_YearWithMostReleases ==
    (choice = 1 /\ Len(films) > 0) =>
        /\ result[1] \in Years
        /\ result[2] = Cardinality(FilmsOfYear(result[1]))
        /\ \A y \in Years : Cardinality(FilmsOfYear(y)) <= result[2]
        /\ ([i \in 1..Len(films) |-> films[i].year]
                = <<Num(2000), Num(2000), Num(Year1999)>>
              => result = <<Num(2000), 2>>)

C9_Witness ==
    /\ choice = 1
    /\ [i \in 1..Len(films) |-> films[i].year]
          = <<Num(2000), Num(2000), Num(Year1999)>>
    /\ result = <<Num(2000), 2>>

\* C3: invoking report 11 again when the view exists raises no error that
\* reaches the caller, and the view keeps the definition of the first
\* invocation.
C3_SecondCreateViewRaisesNothing ==
    /\ choice = 11 => ~raised
    /\ views \in {{}, {ViewCommand}}

\* The genre names of a document: the pieces of its genre between commas,
\* without the whitespace around them.
GenresOf(doc) ==
    IF IsStr(doc.genre)
    THEN {Trim(g) : g \in Range(SplitStr(doc.genre.s, ","))}
    ELSE {}

NoSurroundingWhitespace(s) ==
    Len(s) = 0 \/ (s[1] \notin Whitespace /\ s[Len(s)] \notin Whitespace)

\* C1: the list of report 5 holds no genre twice and no entry with leading
\* or trailing whitespace, also when a genre occurs in one document after a
\* comma and in another after a comma and a space.
C1_DistinctGenresTrimmedNoDuplicates ==
    choice = 5 =>
        /\ \A i \in 1..Len(result) : \A j \in 1..Len(result) :
              result[i] = result[j] => i = j
        /\ \A i \in 1..Len(result) : NoSurroundingWhitespace(result[i])

\* Whether each document has exactly one of the keyed rows under each of its
\* genre names, and none under any other key.
OneRowPerTrimmedGenre(keyed) ==
    \A i \in 1..Len(films) :
        LET mine == {j \in 1..Len(keyed) : keyed[j].row._id = films[i]._id}
        IN  /\ \A g \in GenresOf(films[i]) :
                  Cardinality({j \in mine : keyed[j].key = Str(g)}) = 1
            /\ \A j \in mine : keyed[j].key.s \in GenresOf(films[i])

\* C10: in the group keys of reports 5, 8 and 10 a document contributes
\* exactly one row to each of its trimmed genre names, and no row to a key
\* that is its whole genre list or an untrimmed piece of it.
C10_GenreSplitAndTrimmedInGroupKeys ==
    /\ choice = 5 => OneRowPerTrimmedGenre(GenreKeys5(films))
    /\ choice = 8 => OneRowPerTrimmedGenre(GenreKeys8(films))
    /\ choice = 10 => OneRowPerTrimmedGenre(GenreKeys10(films))

\* The documents with a numeric runtime and a numeric revenue.
Qualifying ==
    {i \in 1..Len(films) : IsNum(films[i].Runtime) /\ IsNum(films[i].Revenue)}

\* C2: report 12 returns a value in [-1, 1] when at least two documents
\* have a numeric runtime and a numeric revenue, and None otherwise, in
\* particular when exactly one document has.  r = cov / sqrt(vx * vy) is in
\* [-1, 1] when cov * cov <= vx * vy.
C2_CorrelationInRangeOrNone ==
    choice = 12 =>
        IF Cardinality(Qualifying) >= 2
        THEN /\ result.t = "float"
             /\ result.cov * result.cov <= result.vx * result.vy
        ELSE result = Null

\* The runtimes of the documents that have the genre g.
RuntimesOfGenre(g) ==
    {films[i].Runtime.n : i \in {i \in 1..Len(films) :
                                   g \in GenresOf(films[i]) /\ IsNum(films[i].Runtime)}}

MaxRuntimeOfGenre(g) ==
    IF RuntimesOfGenre(g) = {} THEN Null
    ELSE Num(CHOOSE m \in RuntimesOfGenre(g) : \A r \in RuntimesOfGenre(g) : r <= m)

\* C4: in every row of report 10, maxRuntime is the greatest runtime of the
\* documents that have the row's genre (null when none of them has a
\* runtime) and longestFilm is a document of the collection that has the
\* genre and that runtime; documents without a runtime do not change this.
C4_LongestFilmByGenre ==
    choice = 10 =>
        \A r \in 1..Len(result) :
            /\ result[r].maxRuntime = MaxRuntimeOfGenre(result[r]._id.s)
            /\ \E i \in 1..Len(films) :
                  /\ result[r].longestFilm._id = films[i]._id
                  /\ result[r].longestFilm.title = films[i].title
                  /\ result[r]._id.s \in GenresOf(films[i])
                  /\ NullIfMissing(films[i].Runtime) = result[r].maxRuntime

C4_Witness ==
    /\ choice = 10
    /\ \E r \in 1..Len(result) :
          /\ result[r].maxRuntime = Num(120)
          /\ \E i \in 1..Len(films) :
                result[r]._id.s \in GenresOf(films[i]) /\ films[i].Runtime = Missing
          /\ \E i \in 1..Len(films) :
                result[r]._id.s \in GenresOf(films[i]) /\ films[i].Runtime = Num(90)

\* A value that converts to a number, and the number it converts to.
Coercible(v) ==
    \/ IsNum(v)
    \/ IsStr(v) /\ Len(v.s) > 0 /\ \A i \in 1..Len(v.s) : v.s[i] \in Digits

ValueOf(v) == IF IsNum(v) THEN v.n ELSE ParseDigits(v.s, 0)

DecadeOfYear(y) == 10 * (y \div 10)

\* The films of decade k that have a metascore.
RatedOfDecade(k) ==
    {i \in 1..Len(films) :
        /\ IsNum(films[i].year) /\ DecadeOfYear(films[i].year.n) = k
        /\ Coercible(films[i].Metascore)}

\* C5: in report 9 every decade's list has at most 3 films, is sorted
\* descending by metascore, consists of the films of that decade with the
\* highest metascores, and holds no film whose Metascore is absent or fails
\* the conversion; the decades are listed in ascending order.
C5_Top3MoviesEachDecade ==
    choice = 9 =>
        /\ \A r \in 1..(Len(result) - 1) : result[r].decade.n < result[r + 1].decade.n
        /\ \A r \in 1..Len(result) :
              LET top == result[r].top3Films
                  rated == RatedOfDecade(result[r].decade.n)
                  listed == {i \in rated : \E e \in 1..Len(top) :
                                              top[e].title = films[i].title}
              IN  /\ Len(top) <= 3
                  /\ Len(top) = IF Cardinality(rated) < 3 THEN Cardinality(rated) ELSE 3
                  /\ Cardinality(listed) = Len(top)
                  /\ \A e \in 1..(Len(top) - 1) :
                        top[e].metascore.n >= top[e + 1].metascore.n
                  /\ \A e \in 1..Len(top) : \E i \in rated :
                        /\ top[e].title = films[i].title
                        /\ top[e].year = films[i].year
                        /\ top[e].metascore = Num(ValueOf(films[i].Metascore))
                  /\ \A i \in rated \ listed : \A e \in 1..Len(top) :
                        ValueOf(films[i].Metascore) <= top[e].metascore.n

C5_Witness ==
    /\ choice = 9
    /\ \E r \in 1..Len(result) :
          /\ Cardinality(RatedOfDecade(result[r].decade.n)) = 4
          /\ Len(result[r].top3Films) = 3
          /\ result[r].top3Films[1].metascore = Num(9)
          /\ result[r].top3Films[3].metascore = Num(7)

\* C6: report 6 returns no film whose revenue is absent, null or fails the
\* conversion; when some revenue converts, the film returned is one whose
\* converted revenue is the greatest of those that convert, and when none
\* converts the result is None.
C6_TopRevenueFilm ==
    choice = 6 =>
        LET priced == {i \in 1..Len(films) : Coercible(films[i].Revenue)}
        IN  IF priced = {} THEN result = Null
            ELSE \E i \in priced :
                    /\ result.title = films[i].title
                    /\ result.originalRevenue = films[i].Revenue
                    /\ result.numericRevenue = Num(ValueOf(films[i].Revenue))
                    /\ \A j \in priced :
                          ValueOf(films[j].Revenue) <= ValueOf(films[i].Revenue)

C6_Witness ==
    /\ choice = 6
    /\ result # Null
    /\ result.originalRevenue = Str(<<"8", "0">>)
    /\ result.numericRevenue = Num(80)
    /\ \E i \in 1..Len(films) : films[i].Revenue = Num(60)
    /\ \E i \in 1..Len(films) : ~Coercible(films[i].Revenue)

\* C11: a report whose filter or group yields no row returns its no-result
\* value, and so does not raise: (None, 0) for report 1, None for reports
\* 3, 6 and 12, the empty dict for report 8, the empty list for reports 4,
\* 7, 9, 10 and 13; the empty collection is one such case.
C11_NoRowsGiveTheSentinel ==
    LET NoFilm(P(_)) == \A i \in 1..Len(films) : ~P(films[i])
        In2007(d) == d.year = Num(Year2007)
        HasRevenue(d) == Coercible(d.Revenue)
        HasGenre(d) == IsStr(d.genre)
        HasMetascore(d) == Coercible(d.Metascore)
        HasRuntime(d) == Coercible(d.Runtime)
        Qualifies(d) == IsNum(d.Runtime) /\ IsNum(d.Revenue)
        Busy(d) == Cardinality({j \in 1..Len(films) :
                                  NullIfMissing(films[j].Director)
                                     = NullIfMissing(d.Director)}) > 5
    IN  /\ (choice = 1 /\ Len(films) = 0) => result = <<Null, 0>>
        /\ (choice = 3 /\ NoFilm(In2007)) => result = Null
        /\ (choice = 4 /\ Len(films) = 0) => result = <<>>
        /\ (choice = 6 /\ NoFilm(HasRevenue)) => result = Null
        /\ (choice = 7 /\ NoFilm(Busy)) => result = <<>>
        /\ (choice = 8 /\ NoFilm(HasGenre)) => result = EmptyDict
        /\ (choice = 9 /\ NoFilm(HasMetascore)) => result = <<>>
        /\ (choice = 10 /\ NoFilm(HasGenre)) => result = <<>>
        /\ (choice = 12 /\ NoFilm(Qualifies)) => result = Null
        /\ (choice = 13 /\ NoFilm(HasRuntime)) => result = <<>>

C11_Witness ==
    /\ choice = 12
    /\ Len(films) = 3
    /\ \A i \in 1..Len(films) : ~IsNum(films[i].Runtime)
    /\ result = Null
    /\ shown = "pas assez de donnees"

\* What report k can return on a collection, whatever was invoked before.
ResultsOf(k, films_collection) ==
    CASE k = 1 -> year_with_most_releases(films_collection)
      [] k = 2 -> {count_films_after_1999(films_collection)}
      [] k = 3 -> {average_votes_for_2007(films_collection)}
      [] k = 4 -> {films_per_year(films_collection)}
      [] k = 5 -> distinct_genres(films_collection)
      [] k = 6 -> top_revenue_film(films_collection)
      [] k = 7 -> directors_with_more_than_5_movies(films_collection)
      [] k = 8 -> top_genre_by_average_revenue(films_collection)
      [] k = 9 -> top_3_movies_each_decade(films_collection)
      [] k = 10 -> longest_film_by_genre(films_collection)
      [] k = 11 -> {Null}
      [] k = 12 -> {runtime_revenue_correlation(films_collection)}
      [] k = 13 -> {average_runtime_by_decade(films_collection)}

\* C12: no report changes the film records; reports 1-10, 12 and 13 change
\* no retained state either, so what a report returns is determined by the
\* current collection alone, not by the reports invoked before; report 11
\* is the only one with an effect, and the effect is at most the definition
\* of the named view.
C12_ReportsOnlyReadAndViewIsTheOnlyEffect ==
    [][ /\ films' = films
        /\ choice' # 11 => views' = views
        /\ choice' = 11 => views' \in {views, views \cup {ViewCommand}}
        /\ result' \in ResultsOf(choice', films) ]_vars

C12_Witness ==
    /\ choice = 12
    /\ views = {ViewCommand}
    /\ Len(films) = MaxFilms
    /\ result = runtime_revenue_correlation(films)
    /\ result # Null

=============================================================================
